---- MODULE Spec2Model ----
(***************************************************************************)
(* Model of src/index.js: a Node.js script run as a CGI program.  The      *)
(* script writes one content-type header block, then a page or an error    *)
(* payload, to standard output; for a POST request it first drains         *)
(* standard input.                                                         *)
(*                                                                         *)
(* Standard output is the sequence `out' of the console.log calls made so  *)
(* far, one record per call.  JavaScript's null and undefined are the      *)
(* marker strings Null and Undefined.  Bytes and code points are integers. *)
(***************************************************************************)
EXTENDS Integers, Sequences, FiniteSets, TLC

\* ------------------------------------------------------------------ bounds
\* longest request body, in bytes
MaxInput == 3
\* longest sequence of writeHttpHeader calls made by the header-gate driver
MaxCalls == 3
\* exceptions thrown by event-loop callbacks while the run is suspended
MaxAsyncFailures == 1

\* ------------------------------------------------------ JavaScript values
Null == "null"
Undefined == "undefined"

\* ------------------------------------------------------------- variables
VARIABLES
  env,            \* process.env: REQUEST_METHOD and SCRIPT_NAME
  httpHeader,     \* the global of line 44
  out,            \* standard output: one record per console.log call
  calls,          \* log of the arguments of the writeHttpHeader invocations
  input,          \* the bytes the host delivers on standard input
  stdin,          \* the chunks of standard input not yet delivered
  postBody,       \* the accumulator of readPostBody (line 97)
  readInvoked,    \* readPostBody has been called
  mainArg,        \* <<>>: main called with no argument; <<b>>: with body b
  pc,             \* position of the top-level async function
  error,          \* the failure travelling to the catch clause
  failures,       \* number of failures raised so far
  onErrorCalls    \* log of the onError invocations: the trigger of each

vars == <<env, httpHeader, out, calls, input, stdin, postBody, readInvoked,
          mainArg, pc, error, failures, onErrorCalls>>

\* ------------------------------------------------------------ header gate
\* lines 32-41
httpHeaders ==
  [plain |-> [type |-> "plain",
              httpHeader |-> "Content-Type: text/plain; charset=UTF-8\n\n"],
   html  |-> [type |-> "html",
              httpHeader |-> "Content-Type: text/html; charset=UTF-8\n\n"]]

\* Property names every object literal inherits from Object.prototype: the
\* lookup httpHeaders[type] finds a function or an object under them.
ObjectPrototypeKeys ==
  {"constructor", "toString", "valueOf", "hasOwnProperty", "__proto__",
   "isPrototypeOf", "propertyIsEnumerable", "toLocaleString"}

\* httpHeaders[type] || httpHeaders.plain, line 54.  An own property is one
\* of the two definitions; an inherited property is a truthy value with
\* neither a type nor an httpHeader property; anything else is undefined and
\* the || selects plain.
SpecifiedHttpHeader(type) ==
  IF type \in DOMAIN httpHeaders THEN httpHeaders[type]
  ELSE IF type \in ObjectPrototypeKeys
       THEN [type |-> Undefined, httpHeader |-> Undefined]
       ELSE httpHeaders.plain

\* One console.log call: what was formatted, and its argument.
Line(tag, arg) == [tag |-> tag, arg |-> arg]

\* writeHttpHeader without the test of line 53: every call writes a header.
writeHttpHeader_NoGuard(g, type) ==
  [httpHeader |-> SpecifiedHttpHeader(type).type,
   out        |-> Append(g.out, Line("raw", SpecifiedHttpHeader(type).httpHeader)),
   calls      |-> Append(g.calls, type)]

\* writeHttpHeader, lines 51-57, on the state g = [httpHeader, out, calls].
writeHttpHeader(g, type) ==
  IF g.httpHeader # Null
  THEN [g EXCEPT !.calls = Append(@, type)]
  ELSE [httpHeader |-> SpecifiedHttpHeader(type).type,
        out        |-> Append(g.out, Line("raw", SpecifiedHttpHeader(type).httpHeader)),
        calls      |-> Append(g.calls, type)]

\* !httpHeader of line 65: null, undefined and '' are falsy
Falsy(v) == v \in {Null, Undefined, ""}

\* onError without lines 65-67: the error text is written with no header.
onError_NoHeader(g, e) ==
  IF g.httpHeader = httpHeaders.html.type
  THEN [g EXCEPT !.out = Append(@, Line("htmlError", e))]
  ELSE [g EXCEPT !.out = Append(@, Line("plainError", e))]

\* onError whose switch always takes the html case.
onError_AlwaysHtml(g, e) ==
  LET h == IF Falsy(g.httpHeader)
           THEN writeHttpHeader(g, httpHeaders.plain.type)
           ELSE g
  IN  [h EXCEPT !.out = Append(@, Line("htmlError", e))]

\* onError whose switch always takes the default case.
onError_AlwaysPlain(g, e) ==
  LET h == IF Falsy(g.httpHeader)
           THEN writeHttpHeader(g, httpHeaders.plain.type)
           ELSE g
  IN  [h EXCEPT !.out = Append(@, Line("plainError", e))]

\* onError that sets the header state itself instead of calling the gate.
onError_DirectAssign(g, e) ==
  LET h == IF Falsy(g.httpHeader)
           THEN [g EXCEPT !.httpHeader = httpHeaders.plain.type,
                          !.out = Append(@, Line("raw", httpHeaders.plain.httpHeader))]
           ELSE g
  IN  IF h.httpHeader = httpHeaders.html.type
      THEN [h EXCEPT !.out = Append(@, Line("htmlError", e))]
      ELSE [h EXCEPT !.out = Append(@, Line("plainError", e))]

\* onError, lines 64-75
onError(g, e) ==
  LET h == IF Falsy(g.httpHeader)
           THEN writeHttpHeader(g, httpHeaders.plain.type)
           ELSE g
  IN  IF h.httpHeader = httpHeaders.html.type
      THEN [h EXCEPT !.out = Append(@, Line("htmlError", e))]
      ELSE [h EXCEPT !.out = Append(@, Line("plainError", e))]

Gate == [httpHeader |-> httpHeader, out |-> out, calls |-> calls]

\* ------------------------------------------------------------ body reader
\* The bytes a request body is made of: 'a', and the two bytes of U+00E9.
Bytes == {97, 195, 169}

\* Number of continuation bytes the lead byte b announces (0: not a lead).
Need(b) ==
  IF b >= 194 /\ b <= 223 THEN 1
  ELSE IF b >= 224 /\ b <= 239 THEN 2
  ELSE IF b >= 240 /\ b <= 244 THEN 3
  ELSE 0

\* Range of the k-th continuation byte after the lead byte b.
ContRange(b, k) ==
  IF k > 1 THEN 128..191
  ELSE IF b = 224 THEN 160..191
  ELSE IF b = 237 THEN 128..159
  ELSE IF b = 240 THEN 144..191
  ELSE IF b = 244 THEN 128..143
  ELSE 128..191

\* Number of well-formed continuation bytes that follow the lead at i.
RECURSIVE Conts(_, _, _)
Conts(bs, i, k) ==
  IF k > Need(bs[i]) \/ i + k > Len(bs) THEN k - 1
  ELSE IF bs[i + k] \in ContRange(bs[i], k) THEN Conts(bs, i, k + 1)
  ELSE k - 1

\* The code point of the complete sequence that starts at i.
CodePoint(bs, i) ==
  IF Need(bs[i]) = 1 THEN (bs[i] - 192) * 64 + (bs[i + 1] - 128)
  ELSE IF Need(bs[i]) = 2
       THEN (bs[i] - 224) * 4096 + (bs[i + 1] - 128) * 64 + (bs[i + 2] - 128)
       ELSE (bs[i] - 240) * 262144 + (bs[i + 1] - 128) * 4096
            + (bs[i + 2] - 128) * 64 + (bs[i + 3] - 128)

\* chunk.toString(): the UTF-8 decoding `postBody += chunk' applies to a
\* Buffer.  Every ill-formed or truncated sequence decodes to U+FFFD.
RECURSIVE DecodeFrom(_, _)
DecodeFrom(bs, i) ==
  IF i > Len(bs) THEN <<>>
  ELSE IF bs[i] < 128 THEN <<bs[i]>> \o DecodeFrom(bs, i + 1)
  ELSE IF Need(bs[i]) > 0 /\ Conts(bs, i, 1) = Need(bs[i])
       THEN <<CodePoint(bs, i)>> \o DecodeFrom(bs, i + Need(bs[i]) + 1)
       ELSE <<65533>> \o DecodeFrom(bs, i + Conts(bs, i, 1) + 1)

Decode(bs) == DecodeFrom(bs, 1)

\* Every way the stream can deliver the bytes s as non-empty chunks.
RECURSIVE Splits(_)
Splits(s) ==
  IF s = <<>> THEN {<<>>}
  ELSE UNION {{<<SubSeq(s, 1, k)>> \o r : r \in Splits(SubSeq(s, k + 1, Len(s)))}
              : k \in 1..Len(s)}

Inputs == UNION {[1..n -> Bytes] : n \in 0..MaxInput}

\* ------------------------------------------------------------------- init
Methods == {"GET", "POST", "post", Undefined}
ScriptNames == {"/app.cgi", Undefined}

Init ==
  /\ env \in [REQUEST_METHOD : Methods, SCRIPT_NAME : ScriptNames]
  /\ httpHeader = Null
  /\ out = <<>>
  /\ calls = <<>>
  /\ input \in Inputs
  /\ stdin \in Splits(input)
  /\ postBody = <<>>
  /\ readInvoked = FALSE
  /\ mainArg = <<>>
  /\ pc = "l163"
  /\ error = Undefined
  /\ failures = 0
  /\ onErrorCalls = <<>>

\* ---------------------------------------------------------------- actions
SetGate(g) ==
  /\ httpHeader' = g.httpHeader
  /\ out' = g.out
  /\ calls' = g.calls

\* The test of line 163 made without regard to case.
RequiresBody_AnyCase(method) == method \in {"POST", "post"}

\* line 163: the request method decides whether the body is read
RequiresBody(method) == method = "POST"

\* lines 163-165, 97: POST calls readPostBody, which suspends on the stream
StartPost ==
  /\ pc = "l163"
  /\ RequiresBody(env.REQUEST_METHOD)
  /\ readInvoked' = TRUE
  /\ postBody' = <<>>
  /\ pc' = "reading"
  /\ UNCHANGED <<env, httpHeader, out, calls, input, stdin, mainArg, error,
                 failures, onErrorCalls>>

\* lines 168-170: any other method calls main()
StartOther ==
  /\ pc = "l163"
  /\ ~RequiresBody(env.REQUEST_METHOD)
  /\ mainArg' = <<>>
  /\ pc' = "m120"
  /\ UNCHANGED <<env, httpHeader, out, calls, input, stdin, postBody,
                 readInvoked, error, failures, onErrorCalls>>

\* line 98: the stream delivers its next chunk
Accumulate(body, chunk) == body \o Decode(chunk)

\* A reader that returns at the first chunk instead of at the end of input.
StdinData_ResolveEarly ==
  /\ pc = "reading"
  /\ stdin # <<>>
  /\ postBody' = Accumulate(postBody, Head(stdin))
  /\ stdin' = Tail(stdin)
  /\ mainArg' = <<postBody'>>
  /\ pc' = "m120"
  /\ UNCHANGED <<env, httpHeader, out, calls, input, readInvoked, error,
                 failures, onErrorCalls>>

StdinData ==
  /\ pc = "reading"
  /\ stdin # <<>>
  /\ postBody' = Accumulate(postBody, Head(stdin))
  /\ stdin' = Tail(stdin)
  /\ UNCHANGED <<env, httpHeader, out, calls, input, readInvoked, mainArg,
                 pc, error, failures, onErrorCalls>>

\* lines 98-99, 165-166: end of input; readPostBody returns, main(postBody)
StdinEnd ==
  /\ pc = "reading"
  /\ stdin = <<>>
  /\ mainArg' = <<postBody>>
  /\ pc' = "m120"
  /\ UNCHANGED <<env, httpHeader, out, calls, input, stdin, postBody,
                 readInvoked, error, failures, onErrorCalls>>

\* line 98: the stream fails; the rejection reaches the catch of line 173
StdinError ==
  /\ pc = "reading"
  /\ error' = "StreamError"
  /\ failures' = failures + 1
  /\ pc' = "catch"
  /\ UNCHANGED <<env, httpHeader, out, calls, input, stdin, postBody,
                 readInvoked, mainArg, onErrorCalls>>

\* ------------------------------------------------------------------- main
\* `${process.env.SCRIPT_NAME}' of line 147
TemplateValue(v) == IF v = Undefined THEN "undefined" ELSE v

\* The test of line 138 made as `postBody !== undefined': an empty body
\* gets a section too.
HasBody_Supplied(arg) == arg # <<>>

\* if(postBody) of line 138, on the argument of main: no argument and the
\* empty string are falsy
HasBody(arg) == arg # <<>> /\ arg[1] # <<>>

\* The console.log calls of main in program order: the line of the call,
\* the record written and the line executed next.
Emit(from, line, to) ==
  /\ pc = from
  /\ out' = Append(out, line)
  /\ pc' = to
  /\ UNCHANGED <<env, httpHeader, calls, input, stdin, postBody, readInvoked,
                 mainArg, error, failures, onErrorCalls>>

\* main asking the gate for the plain kind.
MainHeader_Plain ==
  /\ pc = "m120"
  /\ SetGate(writeHttpHeader(Gate, httpHeaders.plain.type))
  /\ pc' = "m123"
  /\ UNCHANGED <<env, input, stdin, postBody, readInvoked, mainArg, error,
                 failures, onErrorCalls>>

\* line 120
MainHeader ==
  /\ pc = "m120"
  /\ SetGate(writeHttpHeader(Gate, httpHeaders.html.type))
  /\ pc' = "m123"
  /\ UNCHANGED <<env, input, stdin, postBody, readInvoked, mainArg, error,
                 failures, onErrorCalls>>

\* lines 123-131
MainPreamble == Emit("m123", Line("preamble", ""), "m134")

\* line 134
MainTitle == Emit("m134", Line("h1", "Hello Node.js CGI"), "m135")

\* lines 135, 138: the environment dump, then the test of postBody
MainEnv ==
  /\ Emit("m135", Line("env", env), IF HasBody(mainArg) THEN "m139" ELSE "m145")

\* line 139
MainBodyRule == Emit("m139", Line("hr", ""), "m140")

\* line 140
MainBodyTitle == Emit("m140", Line("h2", "Post Body"), "m141")

\* line 141
MainBody == Emit("m141", Line("postBody", mainArg[1]), "m145")

\* line 145
MainFormRule == Emit("m145", Line("hr", ""), "m146")

\* line 146
MainFormTitle == Emit("m146", Line("h2", "POST Test"), "m147")

\* lines 147-150
MainForm == Emit("m147", Line("form", TemplateValue(env.SCRIPT_NAME)), "m153")

\* lines 153-154, then main returns and the try block of line 162 ends
MainEpilogue == Emit("m153", Line("epilogue", ""), "done")

MainPcs == {"m120", "m123", "m134", "m135", "m139", "m140", "m141", "m145",
            "m146", "m147", "m153"}

\* A statement of main throws: main's promise rejects and the await of
\* line 166 or 170 throws into the catch of line 173.
MainThrow ==
  /\ pc \in MainPcs
  /\ error' = "MainError"
  /\ failures' = failures + 1
  /\ pc' = "catch"
  /\ UNCHANGED <<env, httpHeader, out, calls, input, stdin, postBody,
                 readInvoked, mainArg, onErrorCalls>>

\* ---------------------------------------------------------- error triggers
\* A catch clause that calls onError and throws the error again: the rejection
\* of the top-level promise reaches the handler of line 80 as well.
Catch_Rethrow ==
  /\ pc = "catch"
  /\ SetGate(onError(onError(Gate, error), error))
  /\ onErrorCalls' = onErrorCalls \o <<"catch", "uncaughtException">>
  /\ pc' = "done"
  /\ UNCHANGED <<env, input, stdin, postBody, readInvoked, mainArg, error,
                 failures>>

\* A catch clause that swallows the error.
Catch_Silent ==
  /\ pc = "catch"
  /\ pc' = "done"
  /\ UNCHANGED <<env, httpHeader, out, calls, input, stdin, postBody,
                 readInvoked, mainArg, error, failures, onErrorCalls>>

\* lines 173-175: the catch clause calls onError, and the run ends
Catch ==
  /\ pc = "catch"
  /\ SetGate(onError(Gate, error))
  /\ onErrorCalls' = Append(onErrorCalls, "catch")
  /\ pc' = "done"
  /\ UNCHANGED <<env, input, stdin, postBody, readInvoked, mainArg, error,
                 failures>>

AsyncFailures == Cardinality({i \in DOMAIN onErrorCalls :
                                 onErrorCalls[i] = "uncaughtException"})

\* lines 80-82: a callback run by the event loop while the top-level function
\* is suspended throws; the handler calls onError and the process goes on.
UncaughtException ==
  /\ pc = "reading"
  /\ AsyncFailures < MaxAsyncFailures
  /\ failures' = failures + 1
  /\ SetGate(onError(Gate, "AsyncError"))
  /\ onErrorCalls' = Append(onErrorCalls, "uncaughtException")
  /\ UNCHANGED <<env, input, stdin, postBody, readInvoked, mainArg, pc, error>>

Next ==
  \/ StartPost
  \/ StartOther
  \/ StdinData
  \/ StdinEnd
  \/ StdinError
  \/ MainHeader
  \/ MainPreamble
  \/ MainTitle
  \/ MainEnv
  \/ MainBodyRule
  \/ MainBodyTitle
  \/ MainBody
  \/ MainFormRule
  \/ MainFormTitle
  \/ MainForm
  \/ MainEpilogue
  \/ MainThrow
  \/ Catch
  \/ UncaughtException

Spec == Init /\ [][Next]_vars

\* The steps of the program itself; what the host and the runtime do to it
\* (deliver input, close or fail the stream, raise a failure) is the rest.
ProgramStep ==
  \/ StartPost
  \/ StartOther
  \/ MainHeader
  \/ MainPreamble
  \/ MainTitle
  \/ MainEnv
  \/ MainBodyRule
  \/ MainBodyTitle
  \/ MainBody
  \/ MainFormRule
  \/ MainFormTitle
  \/ MainForm
  \/ MainEpilogue
  \/ Catch

\* The host delivers the body and then closes the stream, or the stream fails.
StreamStep == StdinData \/ StdinEnd \/ StdinError

\* Synchronous code runs to completion and the stream ends or fails.
FairSpec == Spec /\ WF_vars(ProgramStep) /\ WF_vars(StreamStep)

\* ------------------------------------------------------ header-gate driver
\* The header gate alone, called any number of times with any kinds.
Kinds == {"plain", "html", "json", "constructor", Undefined}

InitGate ==
  /\ env = [REQUEST_METHOD |-> "GET", SCRIPT_NAME |-> "/app.cgi"]
  /\ httpHeader = Null
  /\ out = <<>>
  /\ calls = <<>>
  /\ input = <<>>
  /\ stdin = <<>>
  /\ postBody = <<>>
  /\ readInvoked = FALSE
  /\ mainArg = <<>>
  /\ pc = "gate"
  /\ error = Undefined
  /\ failures = 0
  /\ onErrorCalls = <<>>

GateCall ==
  /\ pc = "gate"
  /\ Len(calls) < MaxCalls
  /\ \E type \in Kinds : SetGate(writeHttpHeader(Gate, type))
  /\ UNCHANGED <<env, input, stdin, postBody, readInvoked, mainArg, pc, error,
                 failures, onErrorCalls>>

NextGate == GateCall

SpecGate == InitGate /\ [][NextGate]_vars

\* ------------------------------------------------------------- properties
PlainHeaderBlock == Line("raw", "Content-Type: text/plain; charset=UTF-8\n\n")
HtmlHeaderBlock == Line("raw", "Content-Type: text/html; charset=UTF-8\n\n")

IsHeaderBlock(l) == l.tag = "raw" /\ l.arg \in {PlainHeaderBlock.arg, HtmlHeaderBlock.arg}
IsErrorPayload(l) == l.tag \in {"htmlError", "plainError"}
IsPageSection(l) == l.tag \in {"preamble", "h1", "env", "hr", "h2", "postBody",
                               "form", "epilogue"}

HeaderBlocks(o) == {i \in DOMAIN o : IsHeaderBlock(o[i])}
ErrorPayloads(o) == SelectSeq(o, IsErrorPayload)

\* The kind a call is meant to select: its own if recognized, else plain.
IntendedKind(type) == IF type \in {"plain", "html"} THEN type ELSE "plain"
IntendedBlock(type) ==
  IF IntendedKind(type) = "html" THEN HtmlHeaderBlock ELSE PlainHeaderBlock

\* onError ran in this step
OnErrorStep == onErrorCalls' # onErrorCalls

\* C1: after one or more calls of writeHttpHeader with any kinds, exactly one
\* header block has been written, it is the block of the kind of the first
\* call, and the header state is that kind.
C1_FirstCallDecides ==
  calls # <<>> =>
    /\ out = <<IntendedBlock(calls[1])>>
    /\ Cardinality(HeaderBlocks(out)) = 1
    /\ httpHeader = IntendedKind(calls[1])

\* C2: the header state is always unset, plain or html, and a step changes it
\* only from unset to plain or to html.
C2_HeaderStateMonotonic ==
  [][/\ httpHeader \in {Null, "plain", "html"}
     /\ httpHeader' \in {Null, "plain", "html"}
     /\ httpHeader # httpHeader' => httpHeader = Null]_vars

\* C2 witness: the header was set to plain and the gate was called again.
C2_Witness == httpHeader = "plain" /\ Len(calls) >= 2

\* C3: a first call of writeHttpHeader with a kind that is neither plain nor
\* html writes the plain-text header block and sets the header state to plain.
C3_UnrecognizedIsPlain ==
  (calls # <<>> /\ calls[1] \notin {"plain", "html"}) =>
    /\ out = <<PlainHeaderBlock>>
    /\ httpHeader = "plain"

\* C4: nothing is on standard output while the header state is unset, and
\* standard output is one header block followed by non-header output only.
C4_HeaderFirst ==
  /\ httpHeader = Null => out = <<>>
  /\ out # <<>> => HeaderBlocks(out) = {1}

\* C4 witness: a run that failed after page content was written.
C4_Witness ==
  /\ pc = "done"
  /\ failures >= 1
  /\ \E i \in DOMAIN out : IsPageSection(out[i])
  /\ \E i \in DOMAIN out : IsErrorPayload(out[i])

\* C5: when onError runs with the header state unset, standard output becomes
\* exactly the plain header block followed by the plain-text error line.
C5_ErrorBeforeHeader ==
  [][(OnErrorStep /\ httpHeader = Null) =>
       /\ Len(out') = 2
       /\ out'[1] = PlainHeaderBlock
       /\ out'[2].tag = "plainError"
       /\ httpHeader' = "plain"]_vars

\* C5 witness: the stream failed during readPostBody and onError has run.
C5_Witness ==
  /\ onErrorCalls = <<"catch">>
  /\ error = "StreamError"
  /\ Len(out) = 2
  /\ out[2] = Line("plainError", "StreamError")

\* C6: when onError runs with the header state html, it appends the HTML
\* error block and nothing else, and the header state stays html.
C6_ErrorAfterHtmlHeader ==
  [][(OnErrorStep /\ httpHeader = "html") =>
       /\ Len(out') = Len(out) + 1
       /\ SubSeq(out', 1, Len(out)) = out
       /\ out'[Len(out')].tag = "htmlError"
       /\ httpHeader' = "html"]_vars

\* C6 witness: main failed after the html header and onError has run.
C6_Witness ==
  /\ httpHeader = "html"
  /\ onErrorCalls = <<"catch">>
  /\ out[Len(out)] = Line("htmlError", "MainError")

\* C7: every failure raised has had onError called for it exactly once, by
\* the handler if it was raised outside the try block and by the catch clause
\* otherwise, and one error payload is on standard output per failure.
C7_OnErrorOncePerFailure ==
  /\ Len(onErrorCalls) + (IF pc = "catch" THEN 1 ELSE 0) = failures
  /\ Len(ErrorPayloads(out)) = Len(onErrorCalls)
  /\ \A i \in DOMAIN onErrorCalls :
       (onErrorCalls[i] = "uncaughtException")
         <=> (ErrorPayloads(out)[i].arg = "AsyncError")

\* C7 witness: one failure reached the handler and a later one the catch.
C7_Witness ==
  /\ pc = "done"
  /\ onErrorCalls = <<"uncaughtException", "catch">>

\* C8: the body readPostBody returns is the string the input bytes stand
\* for, whatever the chunks they arrived in.
C8_BodyIndependentOfSplit ==
  mainArg # <<>> => mainArg[1] = Decode(input)

\* number of bytes standard input has not delivered yet
RECURSIVE Pending(_)
Pending(chunks) ==
  IF chunks = <<>> THEN 0 ELSE Len(Head(chunks)) + Pending(Tail(chunks))

\* C9: with a request method other than POST, readPostBody is not called, no
\* byte of standard input is consumed and main gets no body argument.
C9_NoBodyPath ==
  env.REQUEST_METHOD # "POST" =>
    /\ ~readInvoked
    /\ pc # "reading"
    /\ Pending(stdin) = Len(input)
    /\ mainArg = <<>>

\* C9 witness: a run with method post and a body on standard input completed.
C9_Witness ==
  /\ env.REQUEST_METHOD = "post"
  /\ input # <<>>
  /\ pc = "done"
  /\ failures = 0

Terminated ==
  /\ pc = "done"
  /\ \E i \in DOMAIN out : out[i].tag = "epilogue" \/ IsErrorPayload(out[i])

\* C10: the run reaches and stays in a final state in which the epilogue or
\* an error payload has been written, and nothing is written after that.
C10_Terminates ==
  /\ <>[]Terminated
  /\ [][pc = "done" => out' = out]_vars

\* C10 witness: a POST run ended after its body was read.
C10_Witness ==
  /\ pc = "done"
  /\ env.REQUEST_METHOD = "POST"
  /\ mainArg # <<>>

\* what each console.log call of standard output formatted, in order
Tags(o) == [i \in DOMAIN o |-> o[i].tag]

\* the request carried a body and the body is not empty
BodySection == env.REQUEST_METHOD = "POST" /\ postBody # <<>>

IsAscii(bs) == \A i \in DOMAIN bs : bs[i] < 128

\* C11: a run that ends with no failure has written, once each and in this
\* order, the html header block, the preamble, the environment dump, the body
\* section exactly if the request carried a non-empty body (showing the body
\* as read, which for an ASCII body is the input itself), the form whose
\* action is SCRIPT_NAME, and the epilogue.
C11_PageInOrder ==
  (pc = "done" /\ failures = 0) =>
    /\ Tags(out) = <<"raw", "preamble", "h1", "env">>
                   \o (IF BodySection THEN <<"hr", "h2", "postBody">> ELSE <<>>)
                   \o <<"hr", "h2", "form", "epilogue">>
    /\ out[1] = HtmlHeaderBlock
    /\ out[4].arg = env
    /\ BodySection =>
         /\ out[6].arg = "Post Body"
         /\ out[7].arg = postBody
         /\ IsAscii(input) => out[7].arg = input
    /\ out[Len(out) - 1].arg = env.SCRIPT_NAME

\* C11 witness: a POST with an empty body ended with no failure.
C11_Witness ==
  /\ pc = "done"
  /\ failures = 0
  /\ env.REQUEST_METHOD = "POST"
  /\ env.SCRIPT_NAME = "/app.cgi"
  /\ mainArg = <<<<>>>>

EndSignalled == stdin = <<>> /\ mainArg # <<>>

\* C13 as stated: for a POST request standard output is empty and the header
\* state unset until the input stream has signalled end of input.
C13_SilentUntilEnd ==
  (env.REQUEST_METHOD = "POST" /\ ~EndSignalled) =>
    /\ out = <<>>
    /\ httpHeader = Null

\* C13 amended: for a POST request in which no failure has been raised,
\* standard output is empty, the header state is unset and main has not
\* started until the input stream has signalled end of input; so while the
\* host keeps the stream open and nothing fails, nothing is ever written.
C13_SilentUntilEndOrFailure ==
  (env.REQUEST_METHOD = "POST" /\ ~EndSignalled /\ failures = 0) =>
    /\ out = <<>>
    /\ httpHeader = Null
    /\ pc \in {"l163", "reading"}

\* C13 witness: every chunk has been delivered, the stream has not ended yet.
C13_Witness ==
  /\ env.REQUEST_METHOD = "POST"
  /\ pc = "reading"
  /\ input # <<>>
  /\ stdin = <<>>
  /\ failures = 0
  /\ out = <<>>

\* C14: the request environment never changes; the header state changes only
\* in a step that calls writeHttpHeader with the state unset; the steps of
\* readPostBody, the steps of main after line 120 and onError with a header
\* already set leave the header state as it is.
C14_HeaderStateFrame ==
  [][/\ env' = env
     /\ httpHeader' # httpHeader =>
          (httpHeader = Null /\ Len(calls') = Len(calls) + 1)
     /\ (pc = "reading" /\ ~OnErrorStep) => httpHeader' = httpHeader
     /\ pc \in (MainPcs \ {"m120"}) => httpHeader' = httpHeader
     /\ (OnErrorStep /\ httpHeader # Null) => httpHeader' = httpHeader]_vars

\* C14 witness: a body was read, main ran to its end and the header is set.
C14_Witness ==
  /\ pc = "done"
  /\ postBody # <<>>
  /\ httpHeader = "html"
  /\ Len(out) > 1

\* C15: the header state is plain only after onError was entered; a run that
\* ends with no failure ends with the header state html; an HTML error block
\* is on standard output only under the html header block and a plain error
\* line only under the plain header block.
C15_PlainOnlyByError ==
  /\ httpHeader = "plain" => onErrorCalls # <<>>
  /\ (pc = "done" /\ failures = 0) => httpHeader = "html"
  /\ \A i \in DOMAIN out :
       /\ out[i].tag = "htmlError" => out[1] = HtmlHeaderBlock
       /\ out[i].tag = "plainError" => out[1] = PlainHeaderBlock

\* C15 witness: main ran under the plain header an earlier onError wrote,
\* failed, and the second error was written as a plain line.
C15_Witness ==
  /\ httpHeader = "plain"
  /\ onErrorCalls = <<"uncaughtException", "catch">>
  /\ Len(ErrorPayloads(out)) = 2
  /\ \E i \in DOMAIN out : IsPageSection(out[i])

\* C16: no page section of main is on standard output after an error payload.
C16_NoPageAfterError ==
  \A i, j \in DOMAIN out :
    (i < j /\ IsErrorPayload(out[i])) => ~IsPageSection(out[j])

====
